---- MODULE Spec2Model ----
(***************************************************************************)
(* A model of src/service-worker.js: the offline request queue (IndexedDB  *)
(* request-store), its replay (retry_requests), the versioned caches and   *)
(* the worker's event handlers (install, activate, fetch, message, sync).  *)
(***************************************************************************)
EXTENDS Integers, Sequences, FiniteSets, TLC

\* ------------------------------------------------------------------ bounds
\* Largest value Date.now() takes in a behaviour.
MaxTime == 2
\* retry_requests runs that may be in progress at once.
MaxRuns == 2
\* Window clients of the origin.
MaxClients == 2
\* Fulfilled replays counted per record; the count stops there.
MaxReplays == 2

\* --------------------------------------------------------------- constants
\* line 2, as the token sequence of its decimal digits
sw_version == <<"1">>
\* line 6
cache_name == <<"web-app-cache-">> \o sw_version
\* the snapshots of two earlier builds, and one whose name has cache_name as a
\* proper substring
old_cache_name == <<"web-app-cache-", "0">>
stale_cache_name == <<"web-app-cache-", "0", "0">>
long_cache_name == <<"web-app-cache-", "1", "0">>
CacheNames == {cache_name, old_cache_name, stale_cache_name, long_cache_name}

OfflinePage == "/offline.html"
\* lines 9-23: one route and the offline page stand for the nine entries
files_to_cache == {"/", OfflinePage}
\* paths a request may name: the cached ones, and two the install never caches
Paths == files_to_cache \cup {"/submit", "/legacy"}
Searches == {"", "?q=1"}
Methods == {"GET", "POST", "PUT", "DELETE"}
\* line 25
requests_to_retry_when_offline == {}
\* line 147, and the tags a sync event or a message may carry
RetryTag == "retry-request"
SyncTags == {"retry-request", "retry-requests"}
MessageTypes == {"SKIP_WAITING", "PREPARE_CACHES_FOR_UPDATE", "retry-requests", "other"}

Request(path, search, method) == [path |-> path, search |-> search, method |-> method]
\* the requests the page sends: reads of cached and uncached paths, with and
\* without a query string, and writes
Requests ==
    {Request("/", "", "GET"), Request("/", "?q=1", "GET"),
     Request("/legacy", "", "GET"), Request("/submit", "?q=1", "GET"),
     Request("/submit", "", "POST"), Request("/submit", "", "PUT"),
     Request("/submit", "", "DELETE")}

\* the value of an absent response (undefined)
Undefined == [kind |-> "undefined"]
\* a respondWith promise that never settles
Pending == [kind |-> "pending"]
\* the response the server of build `ver` gives for `path`
ServerResponse(path, ver, redir) ==
    [kind |-> "response", body |-> <<path, ver>>, status |-> 200,
     headers |-> <<"content-type", path>>, redirected |-> redir, url |-> path]
\* the answer of a live fetch of a request
LiveResponse(req) ==
    [kind |-> "response", body |-> <<req.path, "live">>, status |-> 200,
     headers |-> <<"content-type", req.path>>, redirected |-> FALSE, url |-> req.path]
EmptyCache == [p \in Paths |-> Undefined]

VARIABLES
    online,          \* self.navigator.onLine
    stable,          \* the network is back for good: every fetch fulfils from now on
    syncSupported,   \* "sync" in self.registration
    idbAvailable,    \* self.indexedDB.open succeeds
    now,             \* Date.now()
    swState,         \* the worker's lifecycle state
    skipWaitingFlag, \* self.skipWaiting() has been called
    clients,         \* client -> "closed" | "uncontrolled" | "old" | "controlled"
    cacheKeys,       \* caches.keys(): the caches' names, in creation order
    cacheEntries,    \* cache name -> path -> stored response
    schema,          \* the request-store object store exists
    requestStore,    \* the records of the request-store
    syncTags,        \* tags registered with registration.sync, not yet fired
    runs,            \* run slot -> the state of one retry_requests call
    replays,         \* timestamp key -> number of replay fetches that fulfilled
    removed,         \* timestamp keys once deleted from the request-store
    skip,            \* the SKIP_WAITING handler in progress
    upd,             \* the update_last_cache call in progress
    ev               \* the last handler step taken and what it observed

envVars == <<online, stable, syncSupported, idbAvailable, now>>
lifeVars == <<swState, skipWaitingFlag, clients>>
cacheVars == <<cacheKeys, cacheEntries>>
idbVars == <<schema, requestStore, syncTags>>
drainVars == <<runs, replays, removed>>
vars == <<online, stable, syncSupported, idbAvailable, now, swState, skipWaitingFlag,
          clients, cacheKeys, cacheEntries, schema, requestStore, syncTags, runs,
          replays, removed, skip, upd, ev>>

\* ------------------------------------------------------------------ helpers
Range(s) == {s[i] : i \in 1..Len(s)}
\* String.prototype.includes on token sequences
Includes(s, t) == \E i \in 0..(Len(s) - Len(t)) : SubSeq(s, i + 1, i + Len(t)) = t
\* Array.prototype.filter
RECURSIVE Filter(_, _)
Filter(s, keep) ==
    IF s = <<>> THEN <<>>
    ELSE (IF Head(s) \in keep THEN <<Head(s)>> ELSE <<>>) \o Filter(Tail(s), keep)

\* line 39
is_offline == ~online

\* lines 44-49
is_request_eligible_for_retry(url, method) ==
    \/ method \in {"POST", "PUT", "DELETE"}
    \/ url \in requests_to_retry_when_offline

\* request.url
UrlOf(req) == <<req.path, req.search>>

\* caches.match(path): the first cache, in creation order, holding an entry for
\* the path; a request that is not a GET matches nothing.  The query string is
\* no part of a stored key, and ignoreSearch drops it from the request.
RECURSIVE MatchIn(_, _, _)
MatchIn(names, entries, path) ==
    IF names = <<>> THEN Undefined
    ELSE IF entries[Head(names)][path] # Undefined THEN entries[Head(names)][path]
    ELSE MatchIn(Tail(names), entries, path)
CachesMatch(path, method) ==
    IF method = "GET" THEN MatchIn(cacheKeys, cacheEntries, path) ELSE Undefined

\* lines 267-276: a Response constructed from the clone's body, headers and
\* status; a constructed Response is not redirected and has no url
clean_redirect_noheaders(response) ==
    [kind |-> "response", body |-> response.body, status |-> response.status,
     headers |-> <<>>, redirected |-> FALSE, url |-> ""]
clean_redirect(response) ==
    [kind |-> "response", body |-> response.body, status |-> response.status,
     headers |-> response.headers, redirected |-> FALSE, url |-> ""]

\* ------------------------------------------------------- the request store
\* lines 72-105: open_store rejects when indexedDB.open fails (line 103); when
\* the database opens without the object store, db.transaction throws inside
\* the onsuccess callback (line 80) and the promise never settles
open_store ==
    IF ~idbAvailable THEN "reject" ELSE IF ~schema THEN "hang" ELSE "ok"

QueuedRequest(timestamp, req) ==
    [timestamp |-> timestamp, url |-> UrlOf(req), method |-> req.method]

Keys(store) == {r.timestamp : r \in store}

\* line 135: IDBObjectStore.add rejects when the key is already in the store
StoreAdd(store, record) ==
    IF record.timestamp \in Keys(store) THEN store ELSE store \cup {record}

\* lines 113-150: what store_request leaves behind.  settled: the call
\* returned; added: line 135 stored the record; every rejection inside the try
\* block is swallowed (line 149), so the promise the caller awaits fulfils
\* whenever it settles (outcome)
store_request(req) ==
    LET added == open_store = "ok" /\ now \notin Keys(requestStore)
    IN  [store |-> IF open_store = "ok" THEN StoreAdd(requestStore, QueuedRequest(now, req))
                   ELSE requestStore,
         tags |-> IF added /\ syncSupported THEN syncTags \cup {RetryTag} ELSE syncTags,
         settled |-> open_store # "hang",
         outcome |-> IF open_store = "hang" THEN "pending" ELSE "fulfilled",
         added |-> added]

\* --------------------------------------------------------------- lifecycle
\* lines 232-248.  "openFails": caches.open rejected, so neither addAll nor
\* create_indexed_db was called; "addAllFails": a file could not be fetched
\* (cache.addAll stores all or nothing); "ok": every file was stored.  redir:
\* the server answers the route "/" with a redirect.  create_indexed_db (lines
\* 51-70) creates the object store when the database opens.  Line 246 swallows
\* every rejection, so the worker is installed whatever happened.
InstallOutcomes == {"addAllFails", "ok", "openFails"}
Populated(redir) ==
    [p \in Paths |-> IF p \in files_to_cache
                     THEN ServerResponse(p, sw_version[1], redir /\ p = "/")
                     ELSE Undefined]
\* line 246: the promise given to waitUntil fulfils whether or not the caches
\* and the database were set up, so the host installs the worker
AfterInstall_surfaced(ok) == IF ok THEN "installed" ELSE "redundant"
AfterInstall(ok) == "installed"
install_handler(outcome, redir) ==
    /\ swState = "installing"
    /\ swState' = AfterInstall(outcome = "ok" /\ idbAvailable)
    /\ IF outcome # "openFails"
       THEN /\ cacheKeys' = IF cache_name \in Range(cacheKeys) THEN cacheKeys
                            ELSE Append(cacheKeys, cache_name)
            /\ cacheEntries' = IF outcome = "ok"
                               THEN [cacheEntries EXCEPT ![cache_name] = Populated(redir)]
                               ELSE cacheEntries
            /\ schema' = (schema \/ idbAvailable)
       ELSE UNCHANGED <<cacheKeys, cacheEntries, schema>>
    /\ ev' = [h |-> "install", ok |-> outcome = "ok" /\ idbAvailable]
    /\ UNCHANGED <<envVars, skipWaitingFlag, clients, requestStore, syncTags, drainVars,
                   skip, upd>>

\* the host activates a waiting worker once no client is controlled by the
\* previous worker, or at once after skipWaiting()
CanActivate == skipWaitingFlag \/ \A c \in DOMAIN clients : clients[c] # "old"

\* lines 251-263: every cache whose name is not cache_name is deleted.  The
\* event comes once to a waiting worker; a second delivery stands for a rerun
\* of the deletion.  Clients the previous worker controlled pass to this one.
ToDelete_first(names) ==
    IF \E i \in 1..Len(names) : names[i] # cache_name
    THEN {names[CHOOSE i \in 1..Len(names) :
                   names[i] # cache_name /\ \A j \in 1..(i - 1) : names[j] = cache_name]}
    ELSE {}
ToDelete(names) == {n \in Range(names) : n # cache_name}
DeleteCaches(entries, gone) ==
    [n \in CacheNames |-> IF n \in gone THEN EmptyCache ELSE entries[n]]

\* lines 257-259: map calls caches.delete for every outdated name before any
\* of the deletions settles; failing: the names whose deletion rejects
Attempted_sequential(names, failing) ==
    LET od == Filter(names, ToDelete(names))
    IN  {od[i] : i \in {j \in 1..Len(od) : \A k \in 1..(j - 1) : od[k] \notin failing}}
Attempted(names, failing) == ToDelete(names)

\* lines 252-262: Promise.all rejects when one deletion rejects, and nothing
\* catches it, so the promise given to waitUntil rejects
ActivateSignal(attempted, failing) ==
    IF attempted \cap failing = {} THEN "fulfilled" ELSE "rejected"

\* the host makes the worker active when the activate event's promise has
\* settled, fulfilled or rejected
activate_handler(failing) ==
    /\ \/ swState = "installed" /\ CanActivate
       \/ swState = "activated"
    /\ failing \subseteq ToDelete(cacheKeys)
    /\ swState' = "activated"
    /\ clients' = [c \in DOMAIN clients |->
                      IF clients[c] = "old" THEN "controlled" ELSE clients[c]]
    /\ LET attempted == Attempted(cacheKeys, failing)
           gone == attempted \ failing
       IN  /\ cacheKeys' = Filter(cacheKeys, Range(cacheKeys) \ gone)
           /\ cacheEntries' = DeleteCaches(cacheEntries, gone)
           /\ ev' = [h |-> "activate", before |-> Range(cacheKeys),
                     again |-> ev.h = "activate", failing |-> failing,
                     attempted |-> attempted,
                     signal |-> ActivateSignal(attempted, failing)]
    /\ UNCHANGED <<envVars, skipWaitingFlag, idbVars, drainVars, skip, upd>>

\* ------------------------------------------------------------ environment
SetOnline(b) ==
    /\ ~stable
    /\ online # b
    /\ online' = b
    /\ ev' = [h |-> "connectivity"]
    /\ UNCHANGED <<stable, syncSupported, idbAvailable, now, lifeVars, cacheVars,
                   idbVars, drainVars, skip, upd>>

\* connectivity returns and stays: from here on every fetch fulfils
Stabilize ==
    /\ ~stable
    /\ stable' = TRUE
    /\ online' = TRUE
    /\ ev' = [h |-> "connectivity"]
    /\ UNCHANGED <<syncSupported, idbAvailable, now, lifeVars, cacheVars, idbVars,
                   drainVars, skip, upd>>

Tick ==
    /\ now < MaxTime
    /\ now' = now + 1
    /\ ev' = [h |-> "tick"]
    /\ UNCHANGED <<online, stable, syncSupported, idbAvailable, lifeVars, cacheVars,
                   idbVars, drainVars, skip, upd>>

Open == {c \in DOMAIN clients : clients[c] # "closed"}
Controlled == {c \in DOMAIN clients : clients[c] \in {"old", "controlled"}}

\* a page of the origin opens: under an active worker it is controlled by it,
\* before that by the previous worker, or by none
ClientOpen(c, byOld) ==
    /\ clients[c] = "closed"
    /\ clients' = [clients EXCEPT ![c] = IF swState = "activated" THEN "controlled"
                                         ELSE IF byOld THEN "old" ELSE "uncontrolled"]
    /\ ev' = [h |-> "client"]
    /\ UNCHANGED <<envVars, swState, skipWaitingFlag, cacheVars, idbVars, drainVars,
                   skip, upd>>

ClientClose(c) ==
    /\ clients[c] # "closed"
    /\ clients' = [clients EXCEPT ![c] = "closed"]
    /\ ev' = [h |-> "client"]
    /\ UNCHANGED <<envVars, swState, skipWaitingFlag, cacheVars, idbVars, drainVars,
                   skip, upd>>

\* ------------------------------------------------------------ fetch event
\* what a live fetch can do: it rejects while the network is down and fulfils
\* once the network is back for good
NetOutcomes ==
    IF ~online THEN {"throw"} ELSE IF stable THEN {"response"} ELSE {"response", "throw"}

\* lines 293-310: the branch taken when the request is not queued.  A fetch
\* that fulfils with no response falls out of the try block (line 306).
Respond(req, net) ==
    LET cached == CachesMatch(req.path, req.method)
    IN  IF cached # Undefined
        THEN [branch |-> "cache", live |-> FALSE,
              resp |-> IF cached.redirected THEN clean_redirect(cached) ELSE cached]
        ELSE [branch |-> "network", live |-> TRUE,
              resp |-> CASE net = "response" -> LiveResponse(req)
                         [] net = "none" -> Undefined
                         [] net = "throw" -> CachesMatch(OfflinePage, "GET")]

\* line 287: which requests are queued instead of answered
Queues(req) == is_offline /\ is_request_eligible_for_retry(UrlOf(req), req.method)

\* lines 279-313
fetch_handler(req, net) ==
    /\ swState = "activated"
    /\ IF Queues(req)
       THEN LET r == store_request(req)
            IN  /\ requestStore' = r.store
                /\ syncTags' = r.tags
                /\ ev' = [h |-> "fetch", req |-> req, branch |-> "queue", live |-> FALSE,
                          net |-> "unused", offline |-> is_offline, added |-> r.added,
                          stored |-> r.outcome,
                          resp |-> IF r.settled THEN CachesMatch(OfflinePage, "GET")
                                   ELSE Pending]
       ELSE LET a == Respond(req, net)
            IN  /\ UNCHANGED <<requestStore, syncTags>>
                /\ ev' = [h |-> "fetch", req |-> req, branch |-> a.branch, live |-> a.live,
                          net |-> IF a.live THEN net ELSE "unused",
                          offline |-> is_offline, added |-> FALSE, stored |-> "unused",
                          resp |-> a.resp]
    /\ UNCHANGED <<envVars, lifeVars, cacheVars, schema, drainVars, skip, upd>>

\* ------------------------------------------------------------ retry engine
IdleRun == [pc |-> "idle", by |-> "none", initial |-> {}, reqs |-> {}, outcome |-> <<>>,
            deletes |-> {}]
HasFreeRun == \E r \in 1..MaxRuns : runs[r].pc = "idle"
FreeRun == CHOOSE r \in 1..MaxRuns :
               runs[r].pc = "idle" /\ \A q \in 1..(r - 1) : runs[q].pc # "idle"

\* lines 203-204: a call of retry_requests runs up to its first await, the
\* get_requests call.  initial: the store's records at the call.
retry_requests(by) ==
    [runs EXCEPT ![FreeRun] = [pc |-> "get", by |-> by, initial |-> requestStore,
                               reqs |-> {}, outcome |-> <<>>, deletes |-> {}]]

\* lines 193-200: getAll answers with the records the store holds when it is
\* read, not those it held when the run was called
get_requests_stale(r) == runs[r].initial
get_requests(r) == requestStore

\* lines 204-211: get_requests answers and, in the same turn, one replay fetch
\* is issued for each record it returned.  When the store cannot be opened,
\* get_requests returns the error, reqs.map throws and the run ends rejected.
RunGet(r) ==
    /\ runs[r].pc = "get"
    /\ open_store # "hang"
    /\ IF open_store = "ok"
       THEN LET reqs == get_requests(r)
            IN  /\ runs' = [runs EXCEPT ![r].pc = "replay", ![r].reqs = reqs,
                                        ![r].outcome = [k \in Keys(reqs) |-> "pending"]]
                /\ ev' = [h |-> "run-get", run |-> r, issued |-> Keys(reqs),
                          gone |-> removed]
       ELSE /\ runs' = [runs EXCEPT ![r] = IdleRun]
            /\ ev' = [h |-> "run-rejected", run |-> r]
    /\ UNCHANGED <<envVars, lifeVars, cacheVars, idbVars, replays, removed, skip, upd>>

\* line 209: one replay fetch settles.  It rejects while the network is down
\* and fulfils once the network is back for good.
ReplayOutcomes ==
    IF ~online THEN {"rejected"}
    ELSE IF stable THEN {"fulfilled"} ELSE {"fulfilled", "rejected"}
RunSettle(r, k, o) ==
    /\ runs[r].pc = "replay"
    /\ k \in DOMAIN runs[r].outcome
    /\ runs[r].outcome[k] = "pending"
    /\ o \in ReplayOutcomes
    /\ runs' = [runs EXCEPT ![r].outcome[k] = o]
    /\ replays' = IF o = "fulfilled" /\ replays[k] < MaxReplays
                  THEN [replays EXCEPT ![k] = @ + 1] ELSE replays
    /\ ev' = [h |-> "run-settle", run |-> r, key |-> k, outcome |-> o]
    /\ UNCHANGED <<envVars, lifeVars, cacheVars, idbVars, removed, skip, upd>>

\* lines 220-227: the keys whose deletion the run requests
DeleteKeys_settled(outcome) == DOMAIN outcome
DeleteKeys(outcome) == {k \in DOMAIN outcome : outcome[k] = "fulfilled"}

\* lines 213-228: every replay has settled; the store is opened, a delete is
\* requested for each fulfilled replay without being awaited, and the call
\* returns.
RunResolve(r) ==
    /\ runs[r].pc = "replay"
    /\ \A k \in DOMAIN runs[r].outcome : runs[r].outcome[k] # "pending"
    /\ open_store # "hang"
    /\ IF open_store = "ok"
       THEN /\ runs' = [runs EXCEPT ![r].pc = "resolved",
                                    ![r].deletes = DeleteKeys(runs[r].outcome)]
            /\ ev' = [h |-> "run-resolved", run |-> r]
       ELSE /\ runs' = [runs EXCEPT ![r] = IdleRun]
            /\ ev' = [h |-> "run-rejected", run |-> r]
    /\ UNCHANGED <<envVars, lifeVars, cacheVars, idbVars, replays, removed, skip, upd>>

\* line 225: the deletes requested by the run are carried out by the store
StoreDelete(store, keys) == {rec \in store : rec.timestamp \notin keys}
RunDeletes(r) ==
    /\ runs[r].pc = "resolved"
    /\ requestStore' = StoreDelete(requestStore, runs[r].deletes)
    /\ removed' = removed \cup (runs[r].deletes \cap Keys(requestStore))
    /\ runs' = [runs EXCEPT ![r] = IdleRun]
    /\ ev' = [h |-> "run-done", run |-> r, initial |-> runs[r].initial,
              outcome |-> runs[r].outcome]
    /\ UNCHANGED <<envVars, lifeVars, cacheVars, schema, syncTags, replays, skip, upd>>

\* lines 352-361.  The host fires a sync event for a registered tag once the
\* network is reachable; the registration is used up by the event.
StartsRetry_plural(tag) == tag = "retry-requests"
StartsRetry(tag) == tag = "retry-request"
sync_handler(tag) ==
    /\ syncSupported
    /\ online
    /\ tag \in syncTags
    /\ syncTags' = syncTags \ {tag}
    /\ IF StartsRetry(tag)
       THEN HasFreeRun /\ runs' = retry_requests("sync")
       ELSE UNCHANGED runs
    /\ ev' = [h |-> "sync", tag |-> tag]
    /\ UNCHANGED <<envVars, lifeVars, cacheVars, schema, requestStore, replays, removed,
                   skip, upd>>

\* the page registers a sync tag of its own
PageRegisters(tag) ==
    /\ syncSupported
    /\ tag \notin syncTags
    /\ tag # RetryTag
    /\ syncTags' = syncTags \cup {tag}
    /\ ev' = [h |-> "page"]
    /\ UNCHANGED <<envVars, lifeVars, cacheVars, schema, requestStore, drainVars, skip, upd>>

\* --------------------------------------------------------- message event
IdleSkip == [pc |-> "idle", seen |-> 0, controlled |-> 0]
IdleUpd == [pc |-> "idle", latest |-> <<>>, entries |-> {}, todo |-> <<>>,
            outdated |-> {}, before |-> <<>>]

\* line 344
RetryOnMessage == ~syncSupported

\* lines 316-350: the handler up to its first await
message_handler(type) ==
    /\ type \in MessageTypes
    /\ IF type = "SKIP_WAITING"
       THEN /\ skip.pc = "idle"
            /\ skip' = [IdleSkip EXCEPT !.pc = "matchAll"]
            /\ UNCHANGED <<upd, runs>>
       ELSE IF type = "PREPARE_CACHES_FOR_UPDATE"
       THEN /\ upd.pc = "idle"
            /\ upd' = [IdleUpd EXCEPT !.pc = "names"]
            /\ UNCHANGED <<skip, runs>>
       ELSE IF type = "retry-requests" /\ RetryOnMessage
       THEN /\ HasFreeRun
            /\ runs' = retry_requests("message")
            /\ UNCHANGED <<skip, upd>>
       ELSE UNCHANGED <<skip, upd, runs>>
    /\ ev' = [h |-> "message", type |-> type]
    /\ UNCHANGED <<envVars, lifeVars, cacheVars, idbVars, replays, removed>>

\* line 326
MaySkipWaiting_upto2(n) == n <= 2
MaySkipWaiting(n) == n < 2

\* lines 321-327: matchAll answers with every open client of the origin; with
\* fewer than two, skipWaiting() is called
SkipMatchAll ==
    /\ skip.pc = "matchAll"
    /\ LET n == Cardinality(Open)
       IN  /\ skipWaitingFlag' = (skipWaitingFlag \/ MaySkipWaiting(n))
           /\ skip' = IF MaySkipWaiting(n)
                      THEN [pc |-> "claim", seen |-> n, controlled |-> Cardinality(Controlled)]
                      ELSE IdleSkip
           /\ ev' = [h |-> "skip", call |-> IF MaySkipWaiting(n) THEN "skipWaiting" ELSE "none",
                     seen |-> n, controlled |-> Cardinality(Controlled),
                     stateBefore |-> swState, flagBefore |-> skipWaitingFlag,
                     clientsBefore |-> clients]
    /\ UNCHANGED <<envVars, swState, clients, cacheVars, idbVars, drainVars, upd>>

\* line 328: clients.claim() takes over the uncontrolled clients of an active
\* worker, and rejects for a worker that is not active
SkipClaim ==
    /\ skip.pc = "claim"
    /\ clients' = IF swState = "activated"
                  THEN [c \in DOMAIN clients |->
                           IF clients[c] = "uncontrolled" THEN "controlled" ELSE clients[c]]
                  ELSE clients
    /\ skip' = IdleSkip
    /\ ev' = [h |-> "skip", call |-> "claim", seen |-> skip.seen,
              controlled |-> skip.controlled, stateBefore |-> swState,
              flagBefore |-> skipWaitingFlag, clientsBefore |-> clients]
    /\ UNCHANGED <<envVars, swState, skipWaitingFlag, cacheVars, idbVars, drainVars, upd>>

\* ------------------------------------------------------- cache migration
NoName == <<>>
\* Array.prototype.find
RECURSIVE Find(_, _)
Find(s, wanted) ==
    IF s = <<>> THEN NoName
    ELSE IF Head(s) \in wanted THEN Head(s) ELSE Find(Tail(s), wanted)

\* lines 153-166
get_cache_storage_names(cache_names) ==
    LET with == {n \in Range(cache_names) : Includes(n, cache_name)}
    IN  [latestCacheName |-> Find(cache_names, with),
         outdatedCacheNames |-> Filter(cache_names, Range(cache_names) \ with)]

\* caches.open(name): the cache is created when it does not exist
OpenCache(keys, name) == IF name \in Range(keys) THEN keys ELSE Append(keys, name)

\* lines 171-175: the names are read; without a latest cache or without an
\* outdated one the call returns
UpdNames ==
    /\ upd.pc = "names"
    /\ LET n == get_cache_storage_names(cacheKeys)
       IN  IF n.latestCacheName = NoName \/ n.outdatedCacheNames = <<>>
           THEN /\ upd' = IdleUpd
                /\ ev' = [h |-> "update-done", copied |-> FALSE, latest |-> n.latestCacheName,
                          outdated |-> Range(n.outdatedCacheNames), before |-> cacheEntries,
                          keysBefore |-> cacheKeys]
           ELSE /\ upd' = [pc |-> "open", latest |-> n.latestCacheName, entries |-> {},
                           todo |-> n.outdatedCacheNames,
                           outdated |-> Range(n.outdatedCacheNames),
                           before |-> cacheEntries]
                /\ ev' = [h |-> "update-names"]
    /\ UNCHANGED <<envVars, lifeVars, cacheVars, idbVars, drainVars, skip>>

\* lines 177-179: the latest cache is opened and its keys are listed
UpdOpenLatest ==
    /\ upd.pc = "open"
    /\ cacheKeys' = OpenCache(cacheKeys, upd.latest)
    /\ upd' = [upd EXCEPT !.pc = "copy",
                          !.entries = {p \in Paths : cacheEntries[upd.latest][p] # Undefined}]
    /\ ev' = [h |-> "update-open"]
    /\ UNCHANGED <<envVars, lifeVars, cacheEntries, idbVars, drainVars, skip>>

\* lines 184-188: the entries put into one outdated cache
CopyInto_replace(target, source, entries) == source
CopyInto(target, source, entries) ==
    [p \in Paths |-> IF p \in entries THEN source[p] ELSE target[p]]

\* lines 181-189, one outdated cache: it is opened and every entry of the
\* latest cache is put into it.  An entry the latest cache no longer holds
\* matches nothing, and cloning nothing throws (line 187).  After the last
\* outdated cache the call returns.
UpdCopy ==
    /\ upd.pc = "copy"
    /\ upd.todo # <<>>
    /\ LET name == Head(upd.todo)
           source == cacheEntries[upd.latest]
       IN  IF \E p \in upd.entries : source[p] = Undefined
           THEN /\ cacheKeys' = OpenCache(cacheKeys, name)
                /\ UNCHANGED cacheEntries
                /\ upd' = IdleUpd
                /\ ev' = [h |-> "update-rejected"]
           ELSE /\ cacheKeys' = OpenCache(cacheKeys, name)
                /\ cacheEntries' = [cacheEntries EXCEPT
                                       ![name] = CopyInto(@, source, upd.entries)]
                /\ IF Tail(upd.todo) = <<>>
                   THEN /\ upd' = IdleUpd
                        /\ ev' = [h |-> "update-done", copied |-> TRUE, latest |-> upd.latest,
                                  outdated |-> upd.outdated, before |-> upd.before,
                                  keysBefore |-> cacheKeys]
                   ELSE /\ upd' = [upd EXCEPT !.todo = Tail(@)]
                        /\ ev' = [h |-> "update-copy"]
    /\ UNCHANGED <<envVars, lifeVars, idbVars, drainVars, skip>>

\* ------------------------------------------------------------ initial state
\* the snapshots other builds left behind: those of two earlier builds, and a
\* later build's whose name contains this build's cache name
OldSnapshot ==
    [p \in Paths |-> IF p \in {"/", "/legacy"}
                     THEN ServerResponse(p, "0", FALSE) ELSE Undefined]
StaleSnapshot ==
    [p \in Paths |-> IF p \in {"/legacy"}
                     THEN ServerResponse(p, "00", FALSE) ELSE Undefined]
LongSnapshot ==
    [p \in Paths |-> IF p \in {"/", OfflinePage}
                     THEN ServerResponse(p, "10", FALSE) ELSE Undefined]
NoCaches == [n \in CacheNames |-> EmptyCache]
SnapshotsOf(keys) ==
    [n \in CacheNames |-> IF n \notin Range(keys) THEN EmptyCache
                          ELSE IF n = old_cache_name THEN OldSnapshot
                          ELSE IF n = stale_cache_name THEN StaleSnapshot
                          ELSE IF n = long_cache_name THEN LongSnapshot
                          ELSE EmptyCache]

\* the worker script has been evaluated and its install event is due; prevKeys:
\* the caches other builds of the worker created on this origin
InitWorker(prevKeys) ==
    /\ stable = FALSE
    /\ now = 1
    /\ swState = "installing"
    /\ skipWaitingFlag = FALSE
    /\ clients = [c \in 1..MaxClients |-> "closed"]
    /\ cacheKeys = prevKeys
    /\ cacheEntries = SnapshotsOf(prevKeys)
    /\ schema = (prevKeys # <<>> /\ idbAvailable)
    /\ requestStore = {}
    /\ syncTags = {}
    /\ runs = [r \in 1..MaxRuns |-> IdleRun]
    /\ replays = [k \in 1..MaxTime |-> 0]
    /\ removed = {}
    /\ skip = IdleSkip
    /\ upd = IdleUpd
    /\ ev = [h |-> "init"]

\* ------------------------------------------- specification: fetch events
\* install, activation and the fetch events of a worker, on any platform
InitFetch ==
    /\ online \in BOOLEAN
    /\ syncSupported \in BOOLEAN
    /\ idbAvailable \in BOOLEAN
    /\ \E prevKeys \in {<<>>, <<old_cache_name>>} : InitWorker(prevKeys)

NextFetch ==
    \/ \E outcome \in InstallOutcomes, redir \in BOOLEAN : install_handler(outcome, redir)
    \/ activate_handler({})
    \/ \E b \in BOOLEAN : SetOnline(b)
    \/ Tick
    \/ \E req \in Requests : \E net \in NetOutcomes : fetch_handler(req, net)

SpecFetch == InitFetch /\ [][NextFetch]_vars

IsOfflineDocument(resp) == resp.kind = "response" /\ resp.body[1] = OfflinePage

\* C1: a retry-eligible request intercepted while offline is never fetched live
\* and is answered with the offline fallback document.
C1_OfflineEligibleAnsweredWithFallback ==
    (ev.h = "fetch" /\ ev.offline
        /\ is_request_eligible_for_retry(UrlOf(ev.req), ev.req.method))
    => (~ev.live /\ IsOfflineDocument(ev.resp))

InitActive ==
    /\ stable = FALSE
    /\ now = 1
    /\ swState = "activated"
    /\ skipWaitingFlag = FALSE
    /\ clients = [c \in 1..MaxClients |-> "closed"]
    /\ cacheKeys = <<cache_name>>
    /\ cacheEntries = [NoCaches EXCEPT ![cache_name] = Populated(FALSE)]
    /\ schema = idbAvailable
    /\ requestStore = {}
    /\ syncTags = {}
    /\ runs = [r \in 1..MaxRuns |-> IdleRun]
    /\ replays = [k \in 1..MaxTime |-> 0]
    /\ removed = {}
    /\ skip = IdleSkip
    /\ upd = IdleUpd
    /\ ev = [h |-> "init"]

InitQueue ==
    /\ online \in BOOLEAN
    /\ syncSupported \in BOOLEAN
    /\ idbAvailable = TRUE
    /\ InitActive

NextQueue ==
    \/ \E b \in BOOLEAN : SetOnline(b)
    \/ Tick
    \/ \E req \in Requests : \E net \in NetOutcomes : fetch_handler(req, net)

SpecQueue == InitQueue /\ [][NextQueue]_vars

\* C2: every retry-eligible request intercepted while offline adds one record
\* to the request store, also when two of them are captured at the same time.
C2_EachQueuedRequestAddsOneRecord ==
    [][(ev'.h = "fetch" /\ ev'.branch = "queue")
        => Cardinality(requestStore') = Cardinality(requestStore) + 1]_vars

\* -------------------------------- specification: one drain run at a time
\* the records an offline spell may have left in the store
QueuedWrites == {Request("/submit", "", "POST"), Request("/submit", "", "DELETE")}
StoresOver(keys) ==
    {st \in SUBSET {QueuedRequest(k, req) : k \in keys, req \in QueuedWrites} :
        \A a, b \in st : a.timestamp = b.timestamp => a = b}

AllIdle == \A r \in 1..MaxRuns : runs[r].pc = "idle"

\* an active worker that finds any set of records in the store; the clock is
\* past their capture
InitOneDrain ==
    /\ online \in BOOLEAN
    /\ syncSupported \in BOOLEAN
    /\ idbAvailable = TRUE
    /\ stable = FALSE
    /\ now = MaxTime
    /\ swState = "activated"
    /\ skipWaitingFlag = FALSE
    /\ clients = [c \in 1..MaxClients |-> "closed"]
    /\ cacheKeys = <<cache_name>>
    /\ cacheEntries = [NoCaches EXCEPT ![cache_name] = Populated(FALSE)]
    /\ schema = TRUE
    /\ requestStore \in StoresOver(1..MaxTime)
    /\ syncTags = IF syncSupported /\ requestStore # {} THEN {RetryTag} ELSE {}
    /\ runs = [r \in 1..MaxRuns |-> IdleRun]
    /\ replays = [k \in 1..MaxTime |-> 0]
    /\ removed = {}
    /\ skip = IdleSkip
    /\ upd = IdleUpd
    /\ ev = [h |-> "init"]

\* a run is started only when no other is in progress, and no request is
\* intercepted meanwhile
NextOneDrain ==
    \/ \E b \in BOOLEAN : SetOnline(b)
    \/ AllIdle /\ sync_handler(RetryTag)
    \/ AllIdle /\ message_handler("retry-requests")
    \/ \E r \in 1..MaxRuns : RunGet(r)
    \/ \E r \in 1..MaxRuns, k \in 1..MaxTime, o \in {"fulfilled", "rejected"} :
          RunSettle(r, k, o)
    \/ \E r \in 1..MaxRuns : RunResolve(r)
    \/ \E r \in 1..MaxRuns : RunDeletes(r)

SpecOneDrain == InitOneDrain /\ [][NextOneDrain]_vars

Fulfilled(outcome) == {k \in DOMAIN outcome : outcome[k] = "fulfilled"}

\* C3: when a run of retry_requests that ran alone ends, the store holds the
\* records it held at the call less exactly those whose replay fulfilled.
C3_DrainRemovesExactlyFulfilled ==
    ev.h = "run-done"
    => requestStore = {rec \in ev.initial : rec.timestamp \notin Fulfilled(ev.outcome)}

\* C3 witness: a run over two records, one replay fulfilled and one rejected,
\* has ended and left exactly the record whose replay was rejected
C3_Witness ==
    /\ ev.h = "run-done"
    /\ Cardinality(ev.initial) = 2
    /\ \E k1, k2 \in DOMAIN ev.outcome :
          /\ ev.outcome[k1] = "fulfilled"
          /\ ev.outcome[k2] = "rejected"
          /\ requestStore = {rec \in ev.initial : rec.timestamp = k2}

\* ------------------------------ specification: queueing and draining
\* an active worker on any platform: writes are intercepted, triggers arrive
\* in any order and retry_requests runs overlap
InitDrain ==
    /\ online \in BOOLEAN
    /\ syncSupported \in BOOLEAN
    /\ idbAvailable = TRUE
    /\ InitActive

RunSteps ==
    \/ \E r \in 1..MaxRuns : RunGet(r)
    \/ \E r \in 1..MaxRuns, k \in 1..MaxTime, o \in {"fulfilled", "rejected"} :
          RunSettle(r, k, o)
    \/ \E r \in 1..MaxRuns : RunResolve(r)
    \/ \E r \in 1..MaxRuns : RunDeletes(r)

NextDrain ==
    \/ \E b \in BOOLEAN : SetOnline(b)
    \/ Tick
    \/ \E net \in NetOutcomes : fetch_handler(Request("/submit", "", "POST"), net)
    \/ sync_handler(RetryTag)
    \/ message_handler("retry-requests")
    \/ RunSteps

SpecDrain == InitDrain /\ [][NextDrain]_vars

\* C4: no record is replayed successfully to the network more than once.
C4_ReplayedAtMostOnce == \A k \in DOMAIN replays : replays[k] <= 1

\* ------------------------------- specification: draining, with fairness
\* the host delivers what is due: a sync event for a registered tag while the
\* network is reachable, the page's 'retry-requests' message, and every step
\* of a run in progress (the store answers, a replay fetch settles).  The
\* clock stands still: every request is captured at the same time, so the
\* store holds one record at most.
RunStep(r) ==
    \/ RunGet(r)
    \/ \E k \in 1..MaxTime, o \in {"fulfilled", "rejected"} : RunSettle(r, k, o)
    \/ RunResolve(r)
    \/ RunDeletes(r)

NextLive ==
    \/ \E b \in BOOLEAN : SetOnline(b)
    \/ Stabilize
    \/ \E net \in NetOutcomes : fetch_handler(Request("/submit", "", "POST"), net)
    \/ sync_handler(RetryTag)
    \/ message_handler("retry-requests")
    \/ \E r \in 1..MaxRuns : RunStep(r)

Fairness ==
    /\ WF_vars(sync_handler(RetryTag))
    /\ WF_vars(message_handler("retry-requests"))
    /\ \A r \in 1..MaxRuns : WF_vars(RunStep(r))

SpecLive == InitDrain /\ [][NextLive]_vars /\ Fairness

\* C5: once connectivity is back for good, every record in the request store is
\* eventually replayed and removed.
C5_StoreEventuallyEmpty == stable ~> (requestStore = {})

\* ------------------------------------- specification: control handoff
\* a worker from its install on, pages opening and closing, and the page's
\* SKIP_WAITING messages
InitSkip ==
    /\ online = TRUE
    /\ syncSupported = TRUE
    /\ idbAvailable = TRUE
    /\ \E prevKeys \in {<<>>, <<old_cache_name>>} : InitWorker(prevKeys)

NextSkip ==
    \/ \E outcome \in InstallOutcomes : install_handler(outcome, FALSE)
    \/ activate_handler({})
    \/ \E c \in 1..MaxClients, byOld \in BOOLEAN : ClientOpen(c, byOld)
    \/ \E c \in 1..MaxClients : ClientClose(c)
    \/ message_handler("SKIP_WAITING")
    \/ SkipMatchAll
    \/ SkipClaim

SpecSkip == InitSkip /\ [][NextSkip]_vars

\* C6: the SKIP_WAITING handler calls skipWaiting and clients.claim only if it
\* found at most one controlled client; having found two or more it makes
\* neither call and leaves the lifecycle state as it was.
C6_HandoffOnlyWithAtMostOneClient ==
    ev.h = "skip"
    => /\ ev.call # "none" => ev.controlled <= 1
       /\ ev.controlled >= 2
            => /\ ev.call = "none"
               /\ swState = ev.stateBefore
               /\ skipWaitingFlag = ev.flagBefore
               /\ clients = ev.clientsBefore

\* C6 witness: a waiting worker's handler found two clients controlled by the
\* previous worker, made no call and is still waiting
C6_Witness ==
    /\ ev.h = "skip"
    /\ ev.controlled = 2
    /\ ev.call = "none"
    /\ swState = "installed"
    /\ ~skipWaitingFlag

\* ------------------------------------------ specification: retry triggers
\* an active worker: writes are queued while offline, the page registers sync
\* tags of its own and posts messages, the host fires sync events.  The clock
\* stands still, so the store holds one record at most.
NextTrigger ==
    \/ \E b \in BOOLEAN : SetOnline(b)
    \/ \E net \in NetOutcomes : fetch_handler(Request("/submit", "", "POST"), net)
    \/ \E tag \in SyncTags : sync_handler(tag)
    \/ \E tag \in SyncTags : PageRegisters(tag)
    \/ \E type \in {"retry-requests", "other"} : message_handler(type)
    \/ RunSteps

SpecTrigger == InitDrain /\ [][NextTrigger]_vars

RunStarted == \E r \in 1..MaxRuns : runs[r].pc = "idle" /\ runs'[r].pc = "get"

\* C10: a run of retry_requests is started only by a 'retry-requests' message
\* on a platform without sync, or by a sync event tagged 'retry-request'; with
\* sync supported the message changes nothing; and 'retry-request' is the only
\* tag store_request registers, which it does after a successful add.
C10_RetryTriggers ==
    [][/\ RunStarted
            => \/ ev'.h = "message" /\ ev'.type = "retry-requests" /\ ~syncSupported
               \/ ev'.h = "sync" /\ ev'.tag = "retry-request"
       /\ (ev'.h = "message" /\ syncSupported)
            => /\ runs' = runs
               /\ requestStore' = requestStore
               /\ syncTags' = syncTags
       /\ (ev'.h = "sync" /\ ev'.tag # "retry-request") => runs' = runs
       /\ ev'.h = "fetch"
            => /\ syncTags' \ syncTags \subseteq {"retry-request"}
               /\ syncTags' # syncTags => Cardinality(requestStore') > Cardinality(requestStore)
      ]_vars

\* C10 witness: a sync event tagged 'retry-request', registered when a record
\* was stored, has started a run
C10_Witness ==
    /\ ev.h = "sync"
    /\ ev.tag = "retry-request"
    /\ requestStore # {}
    /\ \E r \in 1..MaxRuns : runs[r].pc = "get"

\* ------------------------------------------- specification: the caches
\* the caches other builds may have left on the origin, in creation order
PreviousCaches ==
    {<<>>, <<old_cache_name>>, <<stale_cache_name, old_cache_name>>,
     <<old_cache_name, long_cache_name>>}

InitCache ==
    /\ online = TRUE
    /\ syncSupported = TRUE
    /\ idbAvailable = TRUE
    /\ \E prevKeys \in PreviousCaches : InitWorker(prevKeys)

UpdSteps == UpdNames \/ UpdOpenLatest \/ UpdCopy

\* a worker before its activation: its install, and cache migrations asked for
\* by the page
NextMigrate ==
    \/ \E outcome \in InstallOutcomes, redir \in BOOLEAN : install_handler(outcome, redir)
    \/ message_handler("PREPARE_CACHES_FOR_UPDATE")
    \/ UpdSteps

SpecMigrate == InitCache /\ [][NextMigrate]_vars

\* C7: when update_last_cache has copied, every outdated cache holds every
\* entry of the latest cache with the latest cache's response, and keeps
\* unchanged every entry of its own that the latest cache does not hold.
C7_MigrationCopiesForward ==
    (ev.h = "update-done" /\ ev.copied)
    => \A o \in ev.outdated : \A p \in Paths :
          /\ o \in Range(cacheKeys)
          /\ cacheEntries[ev.latest][p] = ev.before[ev.latest][p]
          /\ ev.before[ev.latest][p] # Undefined
                => cacheEntries[o][p] = ev.before[ev.latest][p]
          /\ ev.before[ev.latest][p] = Undefined
                => cacheEntries[o][p] = ev.before[o][p]

\* C7 witness: the latest cache held "/" and the offline page, the outdated one
\* "/" and "/legacy"; the outdated one now holds the latest "/" and offline
\* page, and its own "/legacy"
C7_Witness ==
    /\ ev.h = "update-done"
    /\ ev.copied
    /\ ev.latest = cache_name
    /\ old_cache_name \in ev.outdated
    /\ ev.before[old_cache_name]["/"] # Undefined
    /\ ev.before[old_cache_name]["/"] # ev.before[cache_name]["/"]
    /\ ev.before[old_cache_name][OfflinePage] = Undefined
    /\ cacheEntries[old_cache_name]["/"] = ev.before[cache_name]["/"]
    /\ cacheEntries[old_cache_name][OfflinePage] = ev.before[cache_name][OfflinePage]
    /\ cacheEntries[old_cache_name][OfflinePage] # Undefined
    /\ cacheEntries[old_cache_name]["/legacy"] = ev.before[old_cache_name]["/legacy"]
    /\ cacheEntries[old_cache_name]["/legacy"] # Undefined

\* a worker through install and activation, with cache migrations in between
NextCache ==
    \/ \E outcome \in InstallOutcomes, redir \in BOOLEAN : install_handler(outcome, redir)
    \/ activate_handler({})
    \/ message_handler("PREPARE_CACHES_FOR_UPDATE")
    \/ UpdSteps

SpecCache == InitCache /\ [][NextCache]_vars

\* C8: when activate_handler is done, the caches are exactly those that
\* existed before and are named cache_name, and a deletion that follows
\* another at once removes nothing.
C8_ActivationKeepsOnlyCurrent ==
    ev.h = "activate"
    => /\ Range(cacheKeys) = {n \in ev.before : n = cache_name}
       /\ \A n \in CacheNames \ Range(cacheKeys) : cacheEntries[n] = EmptyCache
       /\ ev.again => Range(cacheKeys) = ev.before

\* C8 witness: the deletion found two outdated caches beside the current one
\* and has left the current one, with its entries, alone
C8_Witness ==
    /\ ev.h = "activate"
    /\ ev.before = {stale_cache_name, old_cache_name, cache_name}
    /\ cacheKeys = <<cache_name>>
    /\ cacheEntries[cache_name][OfflinePage] # Undefined

\* ------------------------------------- specification: install over a store
\* a build that replaces an earlier one: the earlier build may have left caches
\* and queued records; the install may fail in its caches or in its database
InitInstall ==
    /\ online \in BOOLEAN
    /\ syncSupported \in BOOLEAN
    /\ idbAvailable \in BOOLEAN
    /\ stable = FALSE
    /\ now = 1
    /\ swState = "installing"
    /\ skipWaitingFlag = FALSE
    /\ clients = [c \in 1..MaxClients |-> "closed"]
    /\ cacheKeys \in {<<>>, <<old_cache_name>>}
    /\ cacheEntries = SnapshotsOf(cacheKeys)
    /\ schema = (cacheKeys # <<>> /\ idbAvailable)
    /\ requestStore \in StoresOver({1})
    /\ requestStore # {} => schema
    /\ syncTags = {}
    /\ runs = [r \in 1..MaxRuns |-> IdleRun]
    /\ replays = [k \in 1..MaxTime |-> 0]
    /\ removed = {}
    /\ skip = IdleSkip
    /\ upd = IdleUpd
    /\ ev = [h |-> "init"]

NextInstall ==
    \/ \E outcome \in InstallOutcomes, redir \in BOOLEAN : install_handler(outcome, redir)
    \/ activate_handler({})
    \/ \E b \in BOOLEAN : SetOnline(b)
    \/ \E req \in Requests : \E net \in NetOutcomes : fetch_handler(req, net)

SpecInstall == InitInstall /\ [][NextInstall]_vars

\* C11: an install whose cache population or schema creation failed still
\* leaves the worker installed and the request store as it was; and every
\* request that is not queued and misses the cache is fetched live, the live
\* response being the answer.
C11_FailedInstallFallsBackToNetwork ==
    [][/\ ev'.h = "install"
            => /\ swState' = "installed"
               /\ requestStore' = requestStore
       /\ (ev'.h = "fetch" /\ ev'.branch # "queue"
              /\ CachesMatch(ev'.req.path, ev'.req.method) = Undefined)
            => /\ ev'.live
               /\ ev'.net = "response" => ev'.resp = LiveResponse(ev'.req)
      ]_vars

\* C11 witness: the install failed over a store holding a record, the worker
\* was activated all the same, and a read of the route "/" that the install
\* should have cached is answered live
C11_Witness ==
    /\ ev.h = "fetch"
    /\ swState = "activated"
    /\ requestStore # {}
    /\ cacheEntries[cache_name] = EmptyCache
    /\ ev.req = Request("/", "", "GET")
    /\ ev.live
    /\ ev.resp = LiveResponse(ev.req)

\* ------------------------------- specification: activation with failures
\* a worker through install and activation, where the deletion of any of the
\* outdated caches may fail, and pages open under the previous worker
NextActivate ==
    \/ \E outcome \in InstallOutcomes : install_handler(outcome, FALSE)
    \/ \E failing \in SUBSET CacheNames : activate_handler(failing)
    \/ \E c \in 1..MaxClients, byOld \in BOOLEAN : ClientOpen(c, byOld)
    \/ \E c \in 1..MaxClients : ClientClose(c)

SpecActivate == InitCache /\ [][NextActivate]_vars

\* C12 as claimed: when a deletion fails the handler's promise still does not
\* fail, the worker becomes active and every other outdated cache is deleted.
C12_DeleteFailureNotSignalled ==
    ev.h = "activate"
    => /\ ev.signal = "fulfilled"
       /\ swState = "activated"
       /\ Range(cacheKeys) \cap {n \in ev.before : n # cache_name} \subseteq ev.failing

\* C12 amended: the worker becomes active whether or not a deletion failed,
\* the deletion of every outdated cache is attempted and every one whose
\* deletion did not fail is gone; the promise given to waitUntil rejects
\* exactly when a deletion failed.
C12_DeleteFailureDoesNotBlockActivation ==
    ev.h = "activate"
    => /\ swState = "activated"
       /\ ev.attempted = {n \in ev.before : n # cache_name}
       /\ Range(cacheKeys) = {n \in ev.before : n = cache_name \/ n \in ev.failing}
       /\ (ev.signal = "rejected") <=> (ev.failing # {})

\* C12 witness: of two outdated caches the deletion of the first failed; the
\* second is gone all the same, and the worker is active
C12_Witness ==
    /\ ev.h = "activate"
    /\ ev.before = {stale_cache_name, old_cache_name, cache_name}
    /\ ev.failing = {stale_cache_name}
    /\ cacheKeys = <<stale_cache_name, cache_name>>
    /\ ev.signal = "rejected"
    /\ swState = "activated"

\* C13: a store_request call that adds no record (the store cannot be opened,
\* or the timestamp key is taken) fails visibly to its caller, leaves the
\* request store unchanged and registers no trigger; and a trigger is
\* registered only by a call that added a record, on a platform with sync.
C13_StorageFaultVisible ==
    [][/\ (ev'.h = "fetch" /\ ev'.branch = "queue" /\ ~ev'.added)
            => /\ ev'.stored = "rejected"
               /\ requestStore' = requestStore
               /\ syncTags' = syncTags
       /\ (ev'.h = "fetch" /\ syncTags' # syncTags)
            => /\ ev'.added
               /\ syncSupported
               /\ syncTags' = syncTags \cup {RetryTag}
      ]_vars

\* C14: a response returned from the cache-hit branch is not redirected; it has
\* the body, status and headers of the cached response, and is the cached
\* response itself when that one is not redirected.
C14_CacheHitNotRedirected ==
    (ev.h = "fetch" /\ ev.branch = "cache")
    => LET cached == CachesMatch(ev.req.path, ev.req.method)
       IN  /\ cached # Undefined
           /\ ~ev.resp.redirected
           /\ ev.resp.body = cached.body
           /\ ev.resp.status = cached.status
           /\ ev.resp.headers = cached.headers
           /\ ~cached.redirected => ev.resp = cached

\* C14 witness: the route "/" was cached from a redirect, and a read of it is
\* answered from the cache with a response that is not redirected
C14_Witness ==
    /\ ev.h = "fetch"
    /\ ev.branch = "cache"
    /\ ev.req.path = "/"
    /\ cacheEntries[cache_name]["/"] # Undefined
    /\ cacheEntries[cache_name]["/"].redirected
    /\ ~ev.resp.redirected
    /\ ev.resp.body = cacheEntries[cache_name]["/"].body

\* ------------------------------------- specification: overlapping drains
\* an active worker that finds any set of records in the store; retry_requests
\* is called while other calls are in progress, and no request is intercepted,
\* so that a key names one record for good
NextOverlap ==
    \/ sync_handler(RetryTag)
    \/ message_handler("retry-requests")
    \/ RunSteps

\* the store holds up to two queued POSTs, captured at the times 1 and 2; the
\* flag reports online throughout, and a replay fulfils or rejects
InitOverlap ==
    /\ InitOneDrain
    /\ online
    /\ \A rec \in requestStore : rec.method = "POST" /\ rec.timestamp \in {1, 2}

SpecOverlap == InitOverlap /\ [][NextOverlap]_vars

\* C15: a run issues no replay fetch for a record that was deleted from the
\* request store before, by this or by another run.
C15_NoReplayAfterDelete ==
    ev.h = "run-get" => ev.issued \cap ev.gone = {}

\* C15 witness: a run called while another was replaying reads the store
\* after the other run has deleted a record, and issues fetches for the
\* records that are left
C15_Witness ==
    /\ ev.h = "run-get"
    /\ ev.gone # {}
    /\ ev.issued # {}
    /\ \E k \in ev.gone : k \in Keys(runs[ev.run].initial)

UpdEvents == {"update-names", "update-open", "update-copy", "update-done", "update-rejected"}

\* C16: no step of update_last_cache changes the current cache, creates or
\* deletes a cache, or changes the request store; and a call that finds no
\* latest cache or no outdated cache changes no cache.
C16_MigrationFrame ==
    [][ev'.h \in UpdEvents
          => /\ cacheEntries'[cache_name] = cacheEntries[cache_name]
             /\ Range(cacheKeys') = Range(cacheKeys)
             /\ requestStore' = requestStore
             /\ (ev'.h = "update-done" /\ ~ev'.copied)
                   => /\ cacheKeys' = cacheKeys
                      /\ cacheEntries' = cacheEntries
      ]_vars

\* C17: what get_cache_storage_names answers to update_last_cache: the latest
\* cache, if any, is the one named cache_name, and the outdated names are
\* exactly those activate_handler would delete.
C17_ClassifiesAsActivationDeletes ==
    /\ ev.h = "update-names"
          => /\ upd.latest = cache_name
             /\ upd.outdated = ToDelete(cacheKeys)
    /\ (ev.h = "update-done" /\ ~ev.copied)
          => /\ ev.latest \in {NoName, cache_name}
             /\ ev.outdated = ToDelete(ev.keysBefore)

\* C19: when the promise of a retry_requests call made by sync_handler
\* resolves, no record whose replay fulfilled is left in the request store.
C19_RemovedBeforeCompletion ==
    (ev.h = "run-resolved" /\ runs[ev.run].by = "sync")
    => \A k \in DOMAIN runs[ev.run].outcome :
          runs[ev.run].outcome[k] = "fulfilled" => k \notin Keys(requestStore)

\* C18: when an update_last_cache call ends in an activated worker, whatever
\* the order of its steps and the activation, no cache but the current one
\* exists.
C18_NoCacheRecreated ==
    (ev.h \in {"update-done", "update-rejected"} /\ swState = "activated")
    => Range(cacheKeys) \subseteq {cache_name}

\* C20: every intercepted retry-eligible request is answered by the network
\* through its live fetch or is added to the request store; and a request
\* handled while the flag reports online leaves the store as it was.
C20_NoMutatingRequestLost ==
    [][(ev'.h = "fetch"
          /\ is_request_eligible_for_retry(UrlOf(ev'.req), ev'.req.method))
         => /\ \/ ev'.live /\ ev'.net = "response"
               \/ ev'.added
            /\ ~ev'.offline => requestStore' = requestStore
      ]_vars
====
